---- MODULE Spec2Model ----
(***************************************************************************)
(* The CAI web backend: SessionManager, TaskManager and WebSocketManager   *)
(* (src/src/cai/web/backend) together with the request handlers of main.py *)
(* that drive them.  Every coroutine is cut at its suspension points: one  *)
(* action is the code that runs between two awaits that really suspend.    *)
(***************************************************************************)
EXTENDS Integers, Sequences, FiniteSets, TLC

\* ------------------------------------------------------------------ bounds
\* the tasks send_message creates, and the tasks other callers create
MaxTasks == 2
MaxApiTasks == 1
MaxSessions == 1
MaxCallers == 2
MaxObservers == 1
\* the broadcast calls the callers of the hub make
MaxBroadcasts == 2
\* the pings an observer is answered
MaxPings == 1

\* --------------------------------------------------------- program constants
\* send_message waits 120.0 seconds for its task
SendMessageTimeout == 120
\* a tool output is cut to this many characters
OutputLimit == 2000
\* the printed arguments of a tool call are cut to this many characters
ArgsLimit == 100

TaskIds == 1..(MaxTasks + MaxApiTasks)
SessionIds == 1..MaxSessions
\* an id no create_session ever returned
UnknownSession == MaxSessions + 1
\* an id no create_task ever returned
UnknownTask == MaxTasks + MaxApiTasks + 1
\* None where a task id is optional (ChatMessage.task_id)
NoTaskId == UnknownTask + 1
Callers == 1..MaxCallers
Observers == 1..MaxObservers

\* Python's None for the optional string fields
None == "<None>"

\* models.py TaskStatus
TaskStatus == {"pending", "running", "completed", "failed", "cancelled"}
Terminal == {"completed", "failed", "cancelled"}

\* the timeouts a caller of wait_for_task passes: not positive, or positive
Timeouts == {0, SendMessageTimeout}

\* ------------------------------------------------------------ the agent run
\* str(item.type).lower() as its underscore-separated words
TypeToolCall == <<"tool", "call", "item">>
TypeToolCallOutput == <<"tool", "call", "output", "item">>
TypeMessageOutput == <<"message", "output", "item">>

\* Python's `needle in text` on the word sequences
Contains(text, needle) ==
    \E i \in 1..(Len(text) - Len(needle) + 1) :
        SubSeq(text, i, i + Len(needle) - 1) = needle

NoArgs == [empty |-> TRUE, has_command |-> FALSE, command |-> "", repr |-> "", len |-> 0]
LsArgs == [empty |-> FALSE, has_command |-> TRUE, command |-> "ls",
           repr |-> "{'command': 'ls'}", len |-> 17]
NmapArgs == [empty |-> FALSE, has_command |-> FALSE, command |-> "",
             repr |-> "{'target': 'host'}", len |-> 18]

NoOutput == [text |-> None, len |-> 0]

\* an item of result.new_items, each attribute None when the item lacks it
Item(type, tool_name, tool_calls, raw_name, content, output) ==
    [type |-> type, tool_name |-> tool_name, tool_calls |-> tool_calls,
     raw_name |-> raw_name, content |-> content, output |-> output]

NoCalls == [present |-> FALSE, name |-> None, args |-> NoArgs]
Calls(name, args) == [present |-> TRUE, name |-> name, args |-> args]

ToolCallItem(name, args) == Item(TypeToolCall, None, Calls(name, args), None, None, NoOutput)
NamedToolCallItem(name) == Item(TypeToolCall, name, NoCalls, None, None, NoOutput)
ToolOutputItem(text, len) ==
    Item(TypeToolCallOutput, None, NoCalls, None, None, [text |-> text, len |-> len])
MessageItem(text) == Item(TypeMessageOutput, None, NoCalls, None, text, NoOutput)

\* the results Runner.run may hand back: new_items and the summed token usage
RunHiThere == [new_items |-> <<MessageItem("hi there")>>, total_tokens |-> 7]
RunLs == [new_items |-> <<MessageItem("let me look"),
                          ToolCallItem("generic_linux_command", LsArgs),
                          ToolOutputItem("file1\nfile2", 11),
                          MessageItem("two files")>>,
          total_tokens |-> 0]
RunTwice == [new_items |-> <<NamedToolCallItem("nmap"), NamedToolCallItem("nmap")>>,
             total_tokens |-> 0]
RunEmpty == [new_items |-> <<>>, total_tokens |-> 0]
RunNmap == [new_items |-> <<ToolCallItem("nmap", NmapArgs)>>, total_tokens |-> 0]
RunRepeats == [new_items |-> <<NamedToolCallItem("nmap"),
                               ToolCallItem("generic_linux_command", LsArgs),
                               NamedToolCallItem("nmap")>>,
               total_tokens |-> 0]
\* every result above, and the ones the state machine draws from
AllRuns == {RunHiThere, RunLs, RunTwice, RunEmpty, RunNmap, RunRepeats}
Runs == {RunHiThere, RunLs}

\* str(e) of the failures the agent run may raise; Exception() prints as ""
AgentErrors == {"agent failure", ""}

\* lines 78-95: the tool name and arguments of a tool-call item
ToolName(item) ==
    IF item.tool_name # None /\ item.tool_name # "" THEN item.tool_name
    ELSE IF item.tool_calls.present THEN item.tool_calls.name
    ELSE item.raw_name

ToolArgs(item) ==
    IF item.tool_name # None /\ item.tool_name # "" THEN NoArgs
    ELSE IF item.tool_calls.present THEN item.tool_calls.args
    ELSE NoArgs

\* lines 100-106: the line shown for a tool call
ToolCommand(name, args) ==
    IF ~args.empty
    THEN IF name = "generic_linux_command" /\ args.has_command
         THEN "Executing Command: " \o args.command
         ELSE "Executing " \o name \o ": " \o
              (IF args.len <= ArgsLimit THEN args.repr ELSE "cut(" \o args.repr \o ")")
    ELSE "Executing " \o name

\* line 133: str(item.output)[:2000]
CapOutput(output) ==
    IF output.len <= OutputLimit THEN output.text ELSE "cut(" \o output.text \o ")"

\* the local variables of _execute_task before the loop of line 71
EmptyScan == [initial_message |-> "", final_message |-> "", tools_used |-> <<>>,
              tool_commands |-> <<>>, tool_outputs |-> <<>>]

\* tool_commands[tool_name] = text on a dict kept in insertion order
SetCommand(cmds, name, text) ==
    IF \E i \in 1..Len(cmds) : cmds[i][1] = name
    THEN [i \in 1..Len(cmds) |-> IF cmds[i][1] = name THEN <<name, text>> ELSE cmds[i]]
    ELSE Append(cmds, <<name, text>>)

\* lines 73-133: one turn of the loop over result.new_items
ScanItem(acc, item) ==
    IF Contains(item.type, <<"tool", "call">>)
    THEN LET name == ToolName(item) IN
         IF name # None /\ name # ""
         THEN [acc EXCEPT !.tools_used = Append(@, name),
                          !.tool_commands = SetCommand(@, name, ToolCommand(name, ToolArgs(item)))]
         ELSE acc
    ELSE IF Contains(item.type, <<"message", "output">>) \/ Contains(item.type, <<"message">>)
    THEN IF item.content # None
         THEN IF acc.initial_message = "" /\ item.content # ""
              THEN [acc EXCEPT !.initial_message = item.content]
              ELSE IF item.content # "" /\ item.content # acc.initial_message
                   THEN [acc EXCEPT !.final_message = item.content]
                   ELSE acc
         ELSE acc
    ELSE IF Contains(item.type, <<"tool", "call", "output">>)
    THEN IF item.output.text # None
         THEN [acc EXCEPT !.tool_outputs = Append(@, CapOutput(item.output))]
         ELSE acc
    ELSE acc

RECURSIVE ScanItems(_, _)
ScanItems(acc, items) ==
    IF items = <<>> THEN acc ELSE ScanItems(ScanItem(acc, Head(items)), Tail(items))

\* the members of a sequence
Range(seq) == {seq[i] : i \in 1..Len(seq)}

\* every order list(set(names)) may come back in
Orders(names) ==
    {seq \in [1..Cardinality(names) -> names] : Range(seq) = names}

\* a list that keeps every name as often as the run reported it
Distinct_AsReported(names) == {names}

\* line 136: list(set(tools_used)), in whatever order the set iterates
Distinct(names) == Orders(Range(names))

RECURSIVE Join(_, _)
\* sep.join(parts)
Join(parts, sep) ==
    IF parts = <<>> THEN ""
    ELSE IF Len(parts) = 1 THEN parts[1]
    ELSE parts[1] \o sep \o Join(Tail(parts), sep)

\* lines 138-156: the task result from what the scan found
TaskResult(acc, tools_used) ==
    IF acc.tool_outputs # <<>> THEN Join(acc.tool_outputs, "\n\n")
    ELSE IF tools_used # <<>> THEN "Executed tools: " \o Join(tools_used, ", ")
    ELSE LET assistant_message ==
                 IF acc.final_message # "" THEN acc.final_message ELSE acc.initial_message
         IN IF assistant_message # "" THEN assistant_message ELSE "Task completed"

\* lines 162-167: task.metadata
Metadata(acc) ==
    [initial_thinking |-> IF acc.initial_message # "" THEN acc.initial_message ELSE None,
     final_response |-> IF acc.final_message # "" THEN acc.final_message ELSE None,
     tool_commands |-> acc.tool_commands,
     tool_outputs |-> acc.tool_outputs]

\* Task.metadata before the run: an empty dict, every .get() None or empty
NoMetadata == [initial_thinking |-> None, final_response |-> None,
               tool_commands |-> <<>>, tool_outputs |-> <<>>]

\* models.py Task(session_id=..., message=...); completed_at counts the
\* timestamps assigned to it so far, 0 being None
Task(session_id, message) ==
    [session_id |-> session_id, message |-> message, status |-> "pending",
     started_at |-> 0, completed_at |-> 0, result |-> None, error |-> None,
     logs |-> <<>>, tools_used |-> <<>>, token_usage |-> 0, metadata |-> NoMetadata]

\* ------------------------------------------------------------------- state
VARIABLES
    sessions,       \* SessionManager.sessions: the ids that are keys of the map
    session,        \* the Session objects ever constructed, by id
    tasks,          \* TaskManager.tasks: id -> Task
    running_tasks,  \* TaskManager.running_tasks: the ids that are keys of the map
    handle,         \* the asyncio.Task running _execute_task, by task id
    connections,    \* WebSocketManager.connections of each of the two hubs
    observer,       \* the websocket of each observer: its state and session
    inbox,          \* what each observer has received, in order
    sendq,          \* the _send_to_websocket coroutines gather has scheduled
    caller,         \* the request handlers and API callers, each at a suspension point
    cleanup_state,  \* TaskManager.cleanup: where it is and what it awaits
    notified,       \* per task, every payload _notify_task_update has broadcast
    cancel_accepted,\* the task ids for which a cancel_task call has returned True
    entries,        \* the entry table of each connections dict: its keys as inserted
    broadcasts,     \* the calls of broadcast_to_session and broadcast_to_all, in call order
    shutdown,       \* WebSocketManager.disconnect_all: where its loops are
    disconnected,   \* the websockets for which a disconnect call has returned
    locks           \* asyncio.Lock._locked of the lock of each manager

vars == <<sessions, session, tasks, running_tasks, handle, connections, observer,
          inbox, sendq, caller, cleanup_state, notified, cancel_accepted, entries,
          broadcasts, shutdown, disconnected, locks>>

\* main.py line 29: the hub websocket_endpoint and send_message use
MainHub == "main.websocket_manager"
\* websocket_manager.py line 81: the hub task_manager.py imports
GlobalHub == "websocket_manager.websocket_manager"
Hubs == {MainHub, GlobalHub}

\* the text a user sends
Messages == {"hello"}

IdleCaller == [op |-> "none", pc |-> "idle", session |-> UnknownSession,
               task |-> UnknownTask, timeout |-> 0, success |-> None,
               raised |-> None, content |-> None, tools_used_list |-> <<>>,
               reply |-> <<>>, agent_type |-> None]

\* the _lock of the SessionManager, the TaskManager and the hub of main.py
SessionLock == "SessionManager._lock"
TaskLock == "TaskManager._lock"
HubLock == "WebSocketManager._lock"
Locks == {SessionLock, TaskLock, HubLock}

\* disconnect_all before it is called
NoShutdown == [pc |-> "idle", di_used |-> 0, pos |-> 0, idx |-> 0, ws |-> 0]

Init ==
    /\ sessions = {}
    /\ session = <<>>
    /\ tasks = <<>>
    /\ running_tasks = {}
    /\ handle = <<>>
    /\ connections = [h \in Hubs |-> <<>>]
    /\ observer = [o \in Observers |-> [state |-> "new", session |-> UnknownSession]]
    /\ inbox = [o \in Observers |-> <<>>]
    /\ sendq = <<>>
    /\ caller = [c \in Callers |-> IdleCaller]
    /\ cleanup_state = [pc |-> "idle", awaiting |-> {}]
    /\ notified = <<>>
    /\ cancel_accepted = {}
    /\ entries = [h \in Hubs |-> <<>>]
    /\ broadcasts = <<>>
    /\ shutdown = NoShutdown
    /\ disconnected = {}
    /\ locks = [l \in Locks |-> FALSE]

\* ------------------------------------------------------------------ locks
\* asyncio.Lock.acquire() on a lock that is not taken: it is taken at once
Acquire(l, name) == [l EXCEPT ![name] = TRUE]

\* a lock that stays taken when the body under it is left
Release_Never(l, name) == l

\* asyncio.Lock.release() as `async with` calls it when its body is left, by
\* its end, by return or by an exception
Release(l, name) == [l EXCEPT ![name] = FALSE]

\* `async with self._lock:` around a body that never awaits: it runs when the
\* lock is free (a caller that finds it taken is suspended until then), and
\* the lock is released before the next suspension
WithLock(name) ==
    /\ ~locks[name]
    /\ locks' = Release(Acquire(locks, name), name)

\* ------------------------------------------------------- WebSocketManager
\* asyncio.Task.done()
Done(h) == h.pc = "done"

\* a broadcast that stops at the first websocket that is not open
Sends_UntilClosed(hub, session_id, data, owner) ==
    IF session_id \in DOMAIN connections[hub]
    THEN LET list == connections[hub][session_id]
             stop == {i \in 1..Len(list) : observer[list[i]].state # "open"}
             n == IF stop = {} THEN Len(list)
                  ELSE (CHOOSE i \in stop : \A j \in stop : i <= j) - 1
         IN [i \in 1..n |-> [ws |-> list[i], data |-> data, owner |-> owner]]
    ELSE <<>>

\* a broadcast that sends to the websockets of every session
Sends_Everyone(hub, session_id, data, owner) ==
    LET all == UNION {Range(connections[hub][s]) : s \in DOMAIN connections[hub]}
        list == CHOOSE q \in [1..Cardinality(all) -> all] : Range(q) = all
    IN [i \in 1..Len(list) |-> [ws |-> list[i], data |-> data, owner |-> owner]]

\* the coroutines broadcast_to_session hands to gather (lines 50-55)
Sends(hub, session_id, data, owner) ==
    IF session_id \in DOMAIN connections[hub]
    THEN [i \in 1..Len(connections[hub][session_id]) |->
             [ws |-> connections[hub][session_id][i], data |-> data, owner |-> owner]]
    ELSE <<>>

\* the observers websocket_endpoint has registered for a session
Observing(session_id) ==
    IF session_id \in DOMAIN connections[MainHub]
    THEN connections[MainHub][session_id] ELSE <<>>

\* the payload of a task_update or task_created event: task.to_dict()
TaskEvent(type, task_id, task) ==
    [type |-> type, ref |-> task_id, session_id |-> task.session_id,
     status |-> task.status, error |-> task.error, content |-> None,
     is_thinking |-> FALSE]

\* the payload of a message_added event
MessageEvent(session_id, message, is_thinking) ==
    [type |-> "message_added", ref |-> message.task_id, session_id |-> session_id,
     status |-> None, error |-> None, content |-> message.content,
     is_thinking |-> is_thinking]

ConnectedEvent(session_id) ==
    [type |-> "connected", ref |-> UnknownTask, session_id |-> session_id,
     status |-> None, error |-> None, content |-> None, is_thinking |-> FALSE]

\* lines 23-25: the websocket is appended to the bucket of its session
Register(conns, ws, session_id) ==
    IF session_id \in DOMAIN conns
    THEN [conns EXCEPT ![session_id] = Append(@, ws)]
    ELSE conns @@ (session_id :> <<ws>>)

\* list.remove(ws): the list without the first occurrence of ws
Remove(list, ws) ==
    LET i == CHOOSE k \in 1..Len(list) : list[k] = ws /\ \A j \in 1..(k - 1) : list[j] # ws
    IN SubSeq(list, 1, i - 1) \o SubSeq(list, i + 1, Len(list))

\* a dict without one key
Without(map, key) == [k \in DOMAIN map \ {key} |-> map[k]]

\* a disconnect that leaves the websocket registered
Unregister_Kept(conns, ws, session_id) == conns

\* a disconnect that keeps the bucket of a session whose last websocket left
Unregister_KeepBucket(conns, ws, session_id) ==
    IF session_id \in DOMAIN conns
    THEN [conns EXCEPT ![session_id] = Remove(@, ws)]
    ELSE conns

\* disconnect (lines 33-38) on a registered websocket
Unregister(conns, ws, session_id) ==
    IF session_id \in DOMAIN conns
    THEN LET rest == Remove(conns[session_id], ws) IN
         IF rest = <<>> THEN Without(conns, session_id)
         ELSE [conns EXCEPT ![session_id] = rest]
    ELSE conns

\* a dict gives a new key the next entry of its table (line 24)
Inserted(ents, conns, session_id) ==
    IF session_id \in DOMAIN conns THEN ents ELSE Append(ents, session_id)

\* connect (lines 18-31) on the hub of main.py: the websocket is accepted,
\* registered under the lock (lines 22-25) and sent the acknowledgement.
connect(o, session_id) ==
    /\ WithLock(HubLock)
    /\ connections' = [connections EXCEPT ![MainHub] = Register(@, o, session_id)]
    /\ entries' = [entries EXCEPT ![MainHub] = Inserted(@, connections[MainHub], session_id)]
    /\ observer' = [observer EXCEPT ![o] = [state |-> "open", session |-> session_id]]
    /\ inbox' = [inbox EXCEPT ![o] = Append(@, ConnectedEvent(session_id))]

\* a websocket_endpoint that connects without looking the session up
websocket_endpoint_Unchecked(o, session_id) ==
    /\ observer[o].state = "new"
    /\ connect(o, session_id)
    /\ UNCHANGED <<disconnected, broadcasts, shutdown, sessions, session, tasks,
                   running_tasks, handle, sendq, caller, cleanup_state, notified,
                   cancel_accepted>>

\* main.py websocket_endpoint up to its receive loop (lines 347-354)
websocket_endpoint(o, session_id) ==
    /\ observer[o].state = "new"
    /\ IF session_id \in sessions
       THEN connect(o, session_id)
       ELSE /\ observer' = [observer EXCEPT ![o] = [state |-> "closed", session |-> session_id]]
            /\ UNCHANGED <<connections, entries, inbox, locks>>
    /\ UNCHANGED <<disconnected, broadcasts, shutdown, sessions, session, tasks,
                   running_tasks, handle, sendq, caller, cleanup_state, notified,
                   cancel_accepted>>

\* the peer goes away: receive_text raises WebSocketDisconnect (lines 365-366)
WebSocketDisconnect(o) ==
    /\ observer[o].state = "open"
    /\ Contains(connections[MainHub][observer[o].session], <<o>>)
    /\ connections' = [connections EXCEPT
           ![MainHub] = Unregister(@, o, observer[o].session)]
    /\ observer' = [observer EXCEPT ![o].state = "closed"]
    /\ disconnected' = disconnected \cup {o}
    /\ UNCHANGED <<locks, entries, broadcasts, shutdown, sessions, session, tasks,
                   running_tasks, handle, inbox, sendq, caller, cleanup_state, notified,
                   cancel_accepted>>

\* the exceptions that are subclasses of Exception
Exceptions == {"RuntimeError", "WebSocketDisconnect", "ValueError"}

\* line 43: what websocket.send_json raises on a websocket in this state
send_json(state) == IF state = "open" THEN None ELSE "RuntimeError"

\* lines 42-46: what _send_to_websocket raises: `except Exception: pass`
SendRaises(state) == IF send_json(state) \in Exceptions THEN None ELSE send_json(state)

\* new sends that run ahead of the ones already scheduled
Schedule_Front(q, jobs) == jobs \o q

\* lines 57 and 67: gather starts the coroutines it is given in their order,
\* behind the ones that are already scheduled
Schedule(q, jobs) == q \o jobs

\* lines 57 and 67: how gather(..., return_exceptions=True) ends when these
\* exceptions came out of its coroutines: they are results, not raised
Gather(escaped, return_exceptions) ==
    IF escaped # {} /\ ~return_exceptions THEN "raised" ELSE "returned"

\* _send_to_websocket (lines 40-46): the oldest scheduled send runs; a send
\* to a closed websocket raises and the failure is swallowed
_send_to_websocket ==
    /\ sendq # <<>>
    /\ LET job == Head(sendq)
           raised == SendRaises(observer[job.ws].state)
       IN /\ inbox' = IF send_json(observer[job.ws].state) = None
                       THEN [inbox EXCEPT ![job.ws] = Append(@, job.data)]
                       ELSE inbox
          /\ broadcasts' = IF job.owner \in DOMAIN broadcasts /\ raised # None
                            THEN [broadcasts EXCEPT ![job.owner].escaped = @ \cup {raised}]
                            ELSE broadcasts
    /\ sendq' = Tail(sendq)
    /\ UNCHANGED <<locks, disconnected, entries, shutdown, sessions, session, tasks,
                   running_tasks, handle, connections, observer, caller, cleanup_state,
                   notified, cancel_accepted>>

\* ------------------------------------------- main.py: the receive loop
\* the text frames a client sends: a ping, another object, a JSON value that
\* is no object, and text that is no JSON
PingText == "{\"type\": \"ping\"}"
StatusText == "{\"type\": \"status\"}"
ListText == "[\"ping\"]"
BareText == "ping"
Frames == {PingText, StatusText, ListText, BareText}

\* line 359: json.loads(data), the value or the exception it raises
json_loads(data) ==
    IF data = PingText THEN [raises |-> None, kind |-> "dict", type |-> "ping"]
    ELSE IF data = StatusText THEN [raises |-> None, kind |-> "dict", type |-> "status"]
    ELSE IF data = ListText THEN [raises |-> None, kind |-> "list", type |-> None]
    ELSE [raises |-> "JSONDecodeError", kind |-> None, type |-> None]

\* line 361: message.get("type"); only a dict has get
MessageGet(message) ==
    IF message.kind = "dict" THEN [raises |-> None, value |-> message.type]
    ELSE [raises |-> "AttributeError", value |-> None]

\* lines 359-361: what the turn of the loop raises before it answers
TurnRaises(data) ==
    IF json_loads(data).raises # None THEN json_loads(data).raises
    ELSE MessageGet(json_loads(data)).raises

\* line 361: the frame is a ping
IsPing(data) == TurnRaises(data) = None /\ MessageGet(json_loads(data)).value = "ping"

\* line 362: the payload of the answer
PongEvent ==
    [type |-> "pong", ref |-> UnknownTask, session_id |-> UnknownSession,
     status |-> None, error |-> None, content |-> None, is_thinking |-> FALSE]

\* the pongs an observer has received
Pongs(o) == {i \in 1..Len(inbox[o]) : inbox[o][i].type = "pong"}

\* an exception leaves websocket_endpoint: only WebSocketDisconnect is caught
\* (line 365), so the handler ends without disconnect and the server closes
\* the websocket of the handler that is gone
HandlerRaises(o) ==
    /\ observer' = [observer EXCEPT ![o].state = "closed"]
    /\ UNCHANGED <<connections, inbox, disconnected>>

\* line 366: WebSocketDisconnect is caught and the websocket is disconnected
HandlerDisconnects(o) ==
    /\ connections' = [connections EXCEPT
           ![MainHub] = Unregister(@, o, observer[o].session)]
    /\ observer' = [observer EXCEPT ![o].state = "closed"]
    /\ disconnected' = disconnected \cup {o}
    /\ UNCHANGED inbox

\* one turn of the receive loop (lines 356-362): a text frame arrives and the
\* pong, if one is due, is sent
Receive(o, data) ==
    /\ observer[o].state = "open"
    /\ IF TurnRaises(data) # None
       THEN HandlerRaises(o)
       ELSE IF IsPing(data)
       THEN /\ Cardinality(Pongs(o)) < MaxPings
            /\ inbox' = [inbox EXCEPT ![o] = Append(@, PongEvent)]
            /\ UNCHANGED <<connections, observer, disconnected>>
       ELSE UNCHANGED <<connections, observer, disconnected, inbox>>
    /\ UNCHANGED <<locks, entries, broadcasts, shutdown, sessions, session, tasks,
                   running_tasks, handle, sendq, caller, cleanup_state, notified,
                   cancel_accepted>>

\* what send_json raises when the peer has gone before the pong is written:
\* WebSocketDisconnect or RuntimeError, by the version of the server library
PongErrors == {"WebSocketDisconnect", "RuntimeError"}

\* a turn of the receive loop whose pong cannot be sent (line 362)
PongFails(o, e) ==
    /\ observer[o].state = "open"
    /\ Contains(connections[MainHub][observer[o].session], <<o>>)
    /\ IF e = "WebSocketDisconnect" THEN HandlerDisconnects(o) ELSE HandlerRaises(o)
    /\ UNCHANGED <<locks, entries, broadcasts, shutdown, sessions, session, tasks,
                   running_tasks, handle, sendq, caller, cleanup_state, notified,
                   cancel_accepted>>

\* --------------------------------------------------------- SessionManager
AgentTypes == {"echo", "no_such_agent"}
\* _create_agent (lines 44-94): get_agent_by_name knows the agent type
KnownAgent(agent_type) == agent_type = "echo"

NewSession(agent_type) == [status |-> "active", agent_type |-> agent_type, messages |-> <<>>]

\* cai.agents.get_agent_by_name (called at lines 60-64): the agent of a known
\* type; for any other name it fails with ValueError
get_agent_by_name(agent_type) == IF KnownAgent(agent_type) THEN "agent" ELSE "ValueError"

\* _create_agent (lines 53-94): what it raises.  A ValueError of the factory
\* is raised again as the error that names the type and the valid types.
CreateAgentRaises(agent_type) ==
    IF get_agent_by_name(agent_type) = "ValueError"
    THEN "Unknown agent type: " \o agent_type \o ". Available agents: echo"
    ELSE None

\* a create_session that registers the session before it builds the agent
create_session_RegistersFirst(agent_type) ==
    /\ Len(session) < MaxSessions
    /\ WithLock(SessionLock)
    /\ session' = Append(session, NewSession(agent_type))
    /\ sessions' = sessions \cup {Len(session) + 1}

\* SessionManager.create_session (lines 28-42): under the lock the agent is
\* built and then the session registered; the error of _create_agent leaves
\* the `async with`, which releases the lock
create_session_body(agent_type) ==
    /\ Len(session) < MaxSessions
    /\ WithLock(SessionLock)
    /\ IF CreateAgentRaises(agent_type) = None
       THEN LET id == Len(session) + 1 IN
            /\ session' = Append(session, NewSession(agent_type))
            /\ sessions' = sessions \cup {id}
       ELSE UNCHANGED <<session, sessions>>

\* create_session (lines 20-42) called for a client whose response is not kept
create_session(agent_type) ==
    /\ create_session_body(agent_type)
    /\ UNCHANGED <<disconnected, entries, broadcasts, shutdown, tasks, running_tasks,
                   handle, connections, observer, inbox, sendq, caller, cleanup_state,
                   notified, cancel_accepted>>

\* SessionManager.get_session (lines 96-98)
get_session(session_id) == IF session_id \in sessions THEN session[session_id] ELSE None

\* a delete_session that finds every id
DeleteSessionReturns_Always(session_id) == TRUE

\* line 107: what delete_session returns
DeleteSessionReturns(session_id) == session_id \in sessions

\* a delete_session that marks the session and leaves it in the map
Deleted_Never(map, session_id) == map

\* line 110: del self.sessions[session_id]
Deleted(map, session_id) == map \ {session_id}

\* SessionManager.delete_session (lines 106-112): the body under the lock
delete_session_body(session_id) ==
    /\ WithLock(SessionLock)
    /\ IF DeleteSessionReturns(session_id)
       THEN /\ session' = [session EXCEPT ![session_id].status = "terminated"]
            /\ sessions' = Deleted(sessions, session_id)
       ELSE UNCHANGED <<session, sessions>>

\* delete_session (lines 104-112) called for a client whose response is not kept
delete_session(session_id) ==
    /\ delete_session_body(session_id)
    /\ UNCHANGED <<disconnected, entries, broadcasts, shutdown, tasks, running_tasks,
                   handle, connections, observer, inbox, sendq, caller, cleanup_state,
                   notified, cancel_accepted>>

\* ------------------------------------------- main.py: the session requests
\* main.py create_session (lines 73-85): any failure is answered with 400 and
\* the text of the error
create_session_endpoint(c, agent_type) ==
    /\ caller[c].pc = "idle"
    /\ create_session_body(agent_type)
    /\ caller' = [caller EXCEPT ![c] =
           IF CreateAgentRaises(agent_type) = None
           THEN [@ EXCEPT !.op = "create_session", !.agent_type = agent_type,
                          !.session = Len(session) + 1, !.pc = "returned"]
           ELSE [@ EXCEPT !.op = "create_session", !.agent_type = agent_type,
                          !.pc = "raised", !.raised = "HTTPException 400",
                          !.content = CreateAgentRaises(agent_type)]]
    /\ UNCHANGED <<disconnected, entries, broadcasts, shutdown, tasks, running_tasks,
                   handle, connections, observer, inbox, sendq, cleanup_state,
                   notified, cancel_accepted>>

\* main.py get_session (lines 95-101)
get_session_endpoint(c, session_id) ==
    /\ caller[c].pc = "idle"
    /\ caller' = [caller EXCEPT ![c] =
           IF session_id \notin sessions
           THEN [@ EXCEPT !.op = "get_session", !.session = session_id,
                          !.pc = "raised", !.raised = "HTTPException 404"]
           ELSE [@ EXCEPT !.op = "get_session", !.session = session_id,
                          !.pc = "returned"]]
    /\ UNCHANGED <<locks, disconnected, entries, broadcasts, shutdown, sessions, session,
                   tasks, running_tasks, handle, connections, observer, inbox, sendq,
                   cleanup_state, notified, cancel_accepted>>

\* main.py delete_session (lines 104-110)
delete_session_endpoint(c, session_id) ==
    /\ caller[c].pc = "idle"
    /\ delete_session_body(session_id)
    /\ caller' = [caller EXCEPT ![c] =
           IF DeleteSessionReturns(session_id)
           THEN [@ EXCEPT !.op = "delete_session", !.session = session_id,
                          !.success = "True", !.pc = "returned"]
           ELSE [@ EXCEPT !.op = "delete_session", !.session = session_id,
                          !.success = "False", !.pc = "raised",
                          !.raised = "HTTPException 404"]]
    /\ UNCHANGED <<disconnected, entries, broadcasts, shutdown, tasks, running_tasks,
                   handle, connections, observer, inbox, sendq, cleanup_state,
                   notified, cancel_accepted>>

\* ------------------------------------------------------------ TaskManager
\* asyncio.Task.cancel(): a request the coroutine sees at its next step;
\* nothing on a task that is done
Cancel(h) == IF Done(h) THEN h ELSE [h EXCEPT !.must_cancel = TRUE]

\* the asyncio.Task create_task starts: scheduled, its coroutine not entered
NewHandle == [pc |-> "init", must_cancel |-> FALSE, outcome |-> "none"]

\* a handle whose coroutine has ended, by return or by CancelledError
Ended(outcome) == [pc |-> "done", must_cancel |-> FALSE, outcome |-> outcome]

\* _notify_task_update (lines 225-233) on the hub task_manager.py imports.  That
\* hub never has a connection (no code connects to it), so the broadcast
\* schedules no send and its await does not suspend.
_notify_task_update(task_id, task) ==
    /\ notified' = [notified EXCEPT ![task_id] =
           Append(@, [data |-> TaskEvent("task_update", task_id, task),
                      connected |-> Range(Observing(task.session_id))])]
    /\ sendq' = Schedule(sendq, Sends(GlobalHub, task.session_id,
                                       TaskEvent("task_update", task_id, task), 0))

\* create_task (lines 25-46): the Task and the asyncio.Task around _execute_task
create_task(session_id, message) ==
    /\ WithLock(TaskLock)
    /\ tasks' = Append(tasks, Task(session_id, message))
    /\ handle' = Append(handle, NewHandle)
    /\ running_tasks' = running_tasks \cup {Len(tasks) + 1}
    /\ notified' = Append(notified, <<>>)

\* lines 52-53: the task starts running
Started(task) == [task EXCEPT !.status = "running", !.started_at = 1]

\* lines 62-201 with the finally of lines 216-218: the run returned
Completed(task, run, tools_used) ==
    LET acc == ScanItems(EmptyScan, run.new_items) IN
    [task EXCEPT !.result = TaskResult(acc, tools_used),
                 !.metadata = Metadata(acc),
                 !.status = "completed",
                 !.tools_used = tools_used,
                 !.logs = [i \in 1..Len(tools_used) |-> "tool_executed"],
                 !.token_usage = run.total_tokens,
                 !.completed_at = @ + 2]

\* lines 203-206 and 218: CancelledError reached the coroutine
Cancelled(task) ==
    [task EXCEPT !.status = "cancelled", !.error = "Task was cancelled",
                 !.completed_at = @ + 1]

\* the except clause without its log entry
Failed_Unlogged(task, e) ==
    [task EXCEPT !.status = "failed", !.error = e, !.completed_at = @ + 1]

\* lines 207-215 and 218: the run raised
Failed(task, e) ==
    [task EXCEPT !.status = "failed", !.error = e, !.logs = Append(@, "error"),
                 !.completed_at = @ + 1]

\* the first step of _execute_task's asyncio.Task.  A task cancelled before its
\* first step ends without entering the coroutine: no line of _execute_task runs.
ExecuteFirstStep(t) ==
    /\ t \in DOMAIN handle
    /\ handle[t].pc = "init"
    /\ IF handle[t].must_cancel
       THEN /\ handle' = [handle EXCEPT ![t] = Ended("cancelled")]
            /\ UNCHANGED <<tasks, notified, sendq>>
       ELSE /\ tasks' = [tasks EXCEPT ![t] = Started(@)]
            /\ _notify_task_update(t, tasks'[t])
            /\ handle' = [handle EXCEPT ![t].pc = "agent"]
    /\ UNCHANGED <<locks, disconnected, entries, broadcasts, shutdown, sessions,
                   session, running_tasks, connections, observer, inbox, caller,
                   cleanup_state, cancel_accepted>>

\* lines 216-223: the finally block, after the status is set
Finalize(t, task, outcome) ==
    /\ tasks' = [tasks EXCEPT ![t] = task]
    /\ running_tasks' = running_tasks \ {t}
    /\ _notify_task_update(t, task)
    /\ handle' = [handle EXCEPT ![t] = Ended(outcome)]
    /\ UNCHANGED <<locks, disconnected, entries, broadcasts, shutdown, sessions,
                   session, connections, observer, inbox, caller, cleanup_state,
                   cancel_accepted>>

\* Runner.run returns and _execute_task runs to its end (lines 57-201, 216-223)
RunReturns(t, run) ==
    /\ t \in DOMAIN handle
    /\ handle[t].pc = "agent"
    /\ ~handle[t].must_cancel
    /\ \E tools_used \in Distinct(ScanItems(EmptyScan, run.new_items).tools_used) :
           Finalize(t, Completed(tasks[t], run, tools_used), "returned")

\* Runner.run raises (lines 207-223)
RunRaises(t, e) ==
    /\ t \in DOMAIN handle
    /\ handle[t].pc = "agent"
    /\ ~handle[t].must_cancel
    /\ Finalize(t, Failed(tasks[t], e), "returned")

\* the cancellation reaches Runner.run (lines 203-206, 216-223)
RunCancelled(t) ==
    /\ t \in DOMAIN handle
    /\ handle[t].pc = "agent"
    /\ handle[t].must_cancel
    /\ Finalize(t, Cancelled(tasks[t]), "cancelled")

\* Runner.run is thrown the CancelledError at its await and does not let it
\* out (it catches it, or shields what it awaits): the execution stays
\* suspended at line 57 and the request to cancel is spent
RunSwallowsCancel(t) ==
    /\ t \in DOMAIN handle
    /\ handle[t].pc = "agent"
    /\ handle[t].must_cancel
    /\ handle' = [handle EXCEPT ![t].must_cancel = FALSE]
    /\ UNCHANGED <<locks, disconnected, entries, broadcasts, shutdown, sessions,
                   session, tasks, running_tasks, connections, observer, inbox, sendq,
                   caller, cleanup_state, notified, cancel_accepted>>

\* line 284: what cancel_task returns
CancelTaskReturns(task_id) == task_id \in running_tasks

\* cancel_task (lines 281-287), for any id
cancel_task(task_id) ==
    /\ WithLock(TaskLock)
    /\ IF CancelTaskReturns(task_id)
       THEN /\ handle' = [handle EXCEPT ![task_id] = Cancel(@)]
            /\ cancel_accepted' = cancel_accepted \cup {task_id}
       ELSE UNCHANGED <<handle, cancel_accepted>>
    /\ UNCHANGED <<disconnected, entries, broadcasts, shutdown, sessions, session,
                   tasks, running_tasks, connections, observer, inbox, sendq, caller,
                   cleanup_state, notified>>

\* main.py cancel_task (lines 276-282): the endpoint /tasks/{task_id}/cancel.
\* The id of a task is known to no client before the first step of its
\* execution, which is scheduled before any handler that could name the id.
cancel_task_endpoint(task_id) ==
    /\ task_id \in DOMAIN handle => handle[task_id].pc # "init"
    /\ cancel_task(task_id)

\* a caller other than send_message creates a task
CreateTask(session_id, message) ==
    /\ Len(tasks) < MaxApiTasks
    /\ create_task(session_id, message)
    /\ UNCHANGED <<disconnected, entries, broadcasts, shutdown, sessions, session,
                   connections, observer, inbox, sendq, caller, cleanup_state,
                   cancel_accepted>>

\* cleanup (lines 294-305) up to its gather
CleanupStart ==
    /\ cleanup_state.pc = "idle"
    /\ handle' = [t \in DOMAIN handle |->
                     IF t \in running_tasks THEN Cancel(handle[t]) ELSE handle[t]]
    /\ cleanup_state' = IF running_tasks # {}
                        THEN [pc |-> "gather", awaiting |-> running_tasks]
                        ELSE [pc |-> "done", awaiting |-> {}]
    /\ UNCHANGED <<locks, disconnected, entries, broadcasts, shutdown, sessions,
                   session, tasks, running_tasks, connections, observer, inbox, sendq,
                   caller, notified, cancel_accepted>>

\* cleanup from the end of its gather (lines 305-315): no background task exists
CleanupEnd ==
    /\ cleanup_state.pc = "gather"
    /\ \A t \in cleanup_state.awaiting : Done(handle[t])
    /\ cleanup_state' = [pc |-> "done", awaiting |-> {}]
    /\ UNCHANGED <<locks, disconnected, entries, broadcasts, shutdown, sessions,
                   session, tasks, running_tasks, handle, connections, observer, inbox,
                   sendq, caller, notified, cancel_accepted>>

\* line 267: the error of a task that timed out
TimeoutError(timeout) ==
    IF timeout = 0 THEN "Task timed out after 0 seconds"
    ELSE "Task timed out after 120.0 seconds"

\* a timeout branch that also stores its notice as the result
TimedOut_WritesResult(task, timeout) ==
    [task EXCEPT !.status = "failed", !.error = TimeoutError(timeout),
                 !.result = TimeoutError(timeout), !.completed_at = @ + 1]

\* the timeout branch without its assignment to the status
TimedOut_StatusKept(task, timeout) ==
    [task EXCEPT !.error = TimeoutError(timeout), !.completed_at = @ + 1]

\* lines 264-268: what the timeout branch of wait_for_task writes to the task
TimedOut(task, timeout) ==
    [task EXCEPT !.status = "failed", !.error = TimeoutError(timeout),
                 !.completed_at = @ + 1]

\* wait_for_task (lines 250-257) up to the suspension inside asyncio.wait_for,
\* called by a caller other than send_message.  A timeout that is not positive
\* cancels the execution at once; a done handle yields its result at once.
WaitForTask(c, task_id, timeout) ==
    /\ caller[c].pc = "idle"
    /\ LET cal == [caller[c] EXCEPT !.op = "wait_for_task", !.task = task_id,
                                    !.timeout = timeout] IN
       IF task_id \notin running_tasks
       THEN /\ caller' = [caller EXCEPT ![c] = [cal EXCEPT !.pc = "returned",
                                                           !.success = "True"]]
            /\ UNCHANGED handle
       ELSE IF Done(handle[task_id])
       THEN /\ caller' = [caller EXCEPT ![c] =
                   [cal EXCEPT !.pc = "raised",
                               !.raised = IF handle[task_id].outcome = "cancelled"
                                          THEN "CancelledError" ELSE None,
                               !.success = IF handle[task_id].outcome = "cancelled"
                                           THEN None ELSE "True"]]
            /\ UNCHANGED handle
       ELSE IF timeout <= 0
       THEN /\ caller' = [caller EXCEPT ![c] = [cal EXCEPT !.pc = "cancelling"]]
            /\ handle' = [handle EXCEPT ![task_id] = Cancel(@)]
       ELSE /\ caller' = [caller EXCEPT ![c] = [cal EXCEPT !.pc = "waiting"]]
            /\ UNCHANGED handle
    /\ UNCHANGED <<locks, disconnected, entries, broadcasts, shutdown, sessions,
                   session, tasks, running_tasks, connections, observer, inbox, sendq,
                   cleanup_state, notified, cancel_accepted>>

\* the positive timeout of asyncio.wait_for elapses: it cancels the execution
\* and waits for it to end.  The first step of the execution was scheduled
\* before the timer and has run by then.
TimeoutElapses(c) ==
    /\ caller[c].pc = "waiting"
    /\ ~Done(handle[caller[c].task])
    /\ handle[caller[c].task].pc # "init"
    /\ handle' = [handle EXCEPT ![caller[c].task] = Cancel(@)]
    /\ caller' = [caller EXCEPT ![c].pc = "cancelling"]
    /\ UNCHANGED <<locks, disconnected, entries, broadcasts, shutdown, sessions,
                   session, tasks, running_tasks, connections, observer, inbox, sendq,
                   cleanup_state, notified, cancel_accepted>>

\* what asyncio.wait_for gives the waiter when the execution has ended: True
\* for a result, False for TimeoutError, and CancelledError passes through
\* the except clauses of wait_for_task (it is no Exception)
WaitOutcome(pc, outcome) ==
    IF outcome = "returned" THEN "True"
    ELSE IF pc = "cancelling" THEN "False"
    ELSE "CancelledError"

\* ---------------------------------------------------- main.py send_message
ChatMessage(role, content, tools_used, task_id) ==
    [role |-> role, content |-> content, tools_used |-> tools_used, task_id |-> task_id]

\* lines 143-154: the content of the reply
ReplyContent(success, completed_task) ==
    IF success # "True" THEN "Task timed out after 2 minutes"
    ELSE IF completed_task.error # None /\ completed_task.error # ""
    THEN "Error: " \o completed_task.error
    ELSE IF completed_task.metadata.final_response # None
    THEN completed_task.metadata.final_response
    ELSE IF completed_task.metadata.initial_thinking # None
    THEN completed_task.metadata.initial_thinking
    ELSE "Agent completed but no response generated"

\* lines 225-234: the handler returns the descriptor of the assistant message
ReplyReturn(st) == [st EXCEPT !.cal.pc = "returned"]

\* a task_created that is broadcast for every task
ReplyTaskCreated_Always(c, st, completed_task) ==
    LET sends == Sends(MainHub, st.cal.session,
                       TaskEvent("task_created", st.cal.task, completed_task), c) IN
    IF sends # <<>>
    THEN [st EXCEPT !.q = Schedule(@, sends), !.cal.pc = "await_task_created"]
    ELSE ReplyReturn(st)

\* lines 216-223: task_created, only when tools were used
ReplyTaskCreated(c, st, completed_task) ==
    LET sends == Sends(MainHub, st.cal.session,
                       TaskEvent("task_created", st.cal.task, completed_task), c) IN
    IF st.cal.tools_used_list # <<>> /\ sends # <<>>
    THEN [st EXCEPT !.q = Schedule(@, sends), !.cal.pc = "await_task_created"]
    ELSE ReplyReturn(st)

\* a main assistant message that is put at the head of the log
ReplyMain_Prepends(c, st, completed_task) ==
    LET assistant_message ==
            ChatMessage("assistant", st.cal.content, st.cal.tools_used_list,
                        IF st.cal.tools_used_list # <<>> THEN st.cal.task ELSE NoTaskId)
        appended == [st EXCEPT !.messages = <<assistant_message>> \o @,
                               !.cal.reply = <<assistant_message>>]
        sends == Sends(MainHub, st.cal.session,
                       MessageEvent(st.cal.session, assistant_message, FALSE), c)
    IN IF sends # <<>>
       THEN [appended EXCEPT !.q = Schedule(@, sends), !.cal.pc = "await_main"]
       ELSE ReplyTaskCreated(c, appended, completed_task)

\* lines 191-213: the main assistant message, appended and broadcast
ReplyMain(c, st, completed_task) ==
    LET assistant_message ==
            ChatMessage("assistant", st.cal.content, st.cal.tools_used_list,
                        IF st.cal.tools_used_list # <<>> THEN st.cal.task ELSE NoTaskId)
        appended == [st EXCEPT !.messages = Append(@, assistant_message),
                               !.cal.reply = <<assistant_message>>]
        sends == Sends(MainHub, st.cal.session,
                       MessageEvent(st.cal.session, assistant_message, FALSE), c)
    IN IF sends # <<>>
       THEN [appended EXCEPT !.q = Schedule(@, sends), !.cal.pc = "await_main"]
       ELSE ReplyTaskCreated(c, appended, completed_task)

\* "\n".join(tool_commands.values())
ThinkingContent(tool_commands) ==
    Join([i \in 1..Len(tool_commands) |-> tool_commands[i][2]], "\n")

\* lines 140-188: the reply is chosen; the thinking message, when tools were used
ReplyThinking(c, st, completed_task) ==
    LET chosen == [st EXCEPT
            !.cal.content = ReplyContent(st.cal.success, completed_task),
            !.cal.tools_used_list = completed_task.tools_used]
        thinking_message ==
            ChatMessage("assistant", ThinkingContent(completed_task.metadata.tool_commands),
                        <<>>, NoTaskId)
        appended == [chosen EXCEPT !.messages = Append(@, thinking_message)]
        sends == Sends(MainHub, st.cal.session,
                       MessageEvent(st.cal.session, thinking_message, TRUE), c)
    IN IF completed_task.tools_used # <<>> /\ completed_task.metadata.tool_commands # <<>>
       THEN IF sends # <<>>
            THEN [appended EXCEPT !.q = Schedule(@, sends), !.cal.pc = "await_thinking"]
            ELSE ReplyMain(c, appended, completed_task)
       ELSE ReplyMain(c, chosen, completed_task)

\* send_message (lines 114-137) up to the suspension inside wait_for_task: the
\* user message is appended, the task created, and the handler waits for it
SendMessage(c, session_id, message) ==
    /\ caller[c].pc = "idle"
    /\ IF session_id \notin sessions
       THEN /\ caller' = [caller EXCEPT ![c] =
                   [@ EXCEPT !.op = "send_message", !.session = session_id,
                             !.pc = "raised", !.raised = "HTTPException 404"]]
            /\ UNCHANGED <<session, tasks, handle, running_tasks, notified, locks>>
       ELSE /\ Len(tasks) < MaxTasks
            /\ session' = [session EXCEPT ![session_id].messages =
                   Append(@, ChatMessage("user", message, <<>>, NoTaskId))]
            /\ create_task(session_id, message)
            /\ caller' = [caller EXCEPT ![c] =
                   [@ EXCEPT !.op = "send_message", !.session = session_id,
                             !.task = Len(tasks) + 1, !.timeout = SendMessageTimeout,
                             !.pc = "waiting"]]
    /\ UNCHANGED <<disconnected, entries, broadcasts, shutdown, sessions, connections,
                   observer, inbox, sendq, cleanup_state, cancel_accepted>>

\* the execution a caller waits for has ended: asyncio.wait_for hands its
\* outcome to wait_for_task (lines 256-272), and send_message goes on from
\* line 140 to its next suspension
WaitEnds(c) ==
    /\ caller[c].pc \in {"waiting", "cancelling"}
    /\ Done(handle[caller[c].task])
    /\ LET t == caller[c].task
           got == WaitOutcome(caller[c].pc, handle[t].outcome)
           task == IF got = "False" THEN TimedOut(tasks[t], caller[c].timeout) ELSE tasks[t]
           cal == IF got = "CancelledError"
                  THEN [caller[c] EXCEPT !.pc = "raised", !.raised = got]
                  ELSE [caller[c] EXCEPT !.pc = "returned", !.success = got]
       IN /\ tasks' = [tasks EXCEPT ![t] = task]
          /\ handle' = IF got = "False" /\ t \in running_tasks
                       THEN [handle EXCEPT ![t] = Cancel(@)] ELSE handle
          /\ IF cal.op = "send_message" /\ cal.pc = "returned"
             THEN LET st == ReplyThinking(c, [cal |-> cal,
                                               messages |-> session[cal.session].messages,
                                               q |-> sendq], task)
                  IN /\ caller' = [caller EXCEPT ![c] = st.cal]
                     /\ session' = [session EXCEPT ![cal.session].messages = st.messages]
                     /\ sendq' = st.q
             ELSE /\ caller' = [caller EXCEPT ![c] = cal]
                  /\ UNCHANGED <<session, sendq>>
    /\ UNCHANGED <<locks, disconnected, entries, broadcasts, shutdown, sessions,
                   running_tasks, connections, observer, inbox, cleanup_state, notified,
                   cancel_accepted>>

\* every send of a broadcast has ended: gather returns and send_message goes
\* on to its next suspension or to its return
BroadcastEnds(c) ==
    /\ caller[c].pc \in {"await_thinking", "await_main", "await_task_created"}
    /\ \A i \in 1..Len(sendq) : sendq[i].owner # c
    /\ LET cal == caller[c]
           st0 == [cal |-> cal, messages |-> session[cal.session].messages, q |-> sendq]
           st == IF cal.pc = "await_thinking" THEN ReplyMain(c, st0, tasks[cal.task])
                 ELSE IF cal.pc = "await_main" THEN ReplyTaskCreated(c, st0, tasks[cal.task])
                 ELSE ReplyReturn(st0)
       IN /\ caller' = [caller EXCEPT ![c] = st.cal]
          /\ session' = [session EXCEPT ![cal.session].messages = st.messages]
          /\ sendq' = st.q
    /\ UNCHANGED <<locks, disconnected, entries, broadcasts, shutdown, sessions, tasks,
                   running_tasks, handle, connections, observer, inbox, cleanup_state,
                   notified, cancel_accepted>>

\* ------------------------------------- WebSocketManager under any caller
\* the websockets and the session ids the callers of the hub pass to it; the
\* hub never asks whether a session exists
HubObservers == 1..(MaxObservers + 1)
HubSessions == SessionIds \cup {UnknownSession}

\* the callers of the hub start with websockets that are not yet accepted
HubInit ==
    /\ Init!1 /\ Init!2 /\ Init!3 /\ Init!4 /\ Init!5 /\ Init!6
    /\ observer = [o \in HubObservers |-> [state |-> "new", session |-> UnknownSession]]
    /\ inbox = [o \in HubObservers |-> <<>>]
    /\ Init!9 /\ Init!10 /\ Init!11 /\ Init!12 /\ Init!13 /\ Init!14 /\ Init!15
       /\ Init!16 /\ Init!17 /\ Init!18

\* an entry of the table holds a key of the dict: the last insertion of a key
\* that has not been deleted since
Live(ents, conns, i) ==
    /\ ents[i] \in DOMAIN conns
    /\ \A j \in (i + 1)..Len(ents) : ents[j] # ents[i]

RECURSIVE KeysFrom(_, _, _)
\* the keys of the dict in the order a loop over it meets them, from entry i
KeysFrom(ents, conns, i) ==
    IF i > Len(ents) THEN <<>>
    ELSE (IF Live(ents, conns, i) THEN <<ents[i]>> ELSE <<>>) \o KeysFrom(ents, conns, i + 1)

RECURSIVE SendsTo(_, _, _, _)
\* the coroutines broadcast_to_all hands to gather (lines 61-64)
SendsTo(hub, keys, data, owner) ==
    IF keys = <<>> THEN <<>>
    ELSE Sends(hub, Head(keys), data, owner) \o SendsTo(hub, Tail(keys), data, owner)

\* the websockets a hub holds, over all its sessions
Registered(hub) ==
    UNION {Range(connections[hub][s]) : s \in DOMAIN connections[hub]}

\* the payload the n-th broadcast call is given
PayloadEvent(n, scope, session_id) ==
    [type |-> scope, ref |-> n, session_id |-> session_id,
     status |-> None, error |-> None, content |-> None, is_thinking |-> FALSE]

\* a call of broadcast_to_session or broadcast_to_all from its first line to
\* its gather: what it was given, the websockets registered for it, the ones
\* a disconnect call had returned for, the exceptions that came out of its
\* sends, and where the call is
BroadcastCall(scope, session_id, data, registered, jobs) ==
    [scope |-> scope, session |-> session_id, data |-> data,
     registered |-> registered,
     gone |-> disconnected,
     escaped |-> {},
     pc |-> IF jobs = <<>> THEN "returned" ELSE "gather"]

\* connect (lines 18-31) called with any websocket not yet accepted
Connect(o, session_id) ==
    /\ observer[o].state = "new"
    /\ connect(o, session_id)
    /\ UNCHANGED <<disconnected, broadcasts, shutdown, sessions, session, tasks,
                   running_tasks, handle, sendq, caller, cleanup_state, notified,
                   cancel_accepted>>

\* the peer of a websocket goes away; the hub still holds the websocket
PeerCloses(o) ==
    /\ observer[o].state = "open"
    /\ observer' = [observer EXCEPT ![o].state = "closed"]
    /\ UNCHANGED <<locks, disconnected, entries, broadcasts, shutdown, sessions,
                   session, tasks, running_tasks, handle, connections, inbox, sendq,
                   caller, cleanup_state, notified, cancel_accepted>>

\* disconnect (lines 33-38) of a websocket the hub holds, open or not.  With
\* no bucket for the session the call does nothing, and with a bucket without
\* the websocket list.remove raises ValueError before anything is changed.
disconnect(o) ==
    /\ observer[o].state # "new"
    /\ observer[o].session \in DOMAIN connections[MainHub]
    /\ Contains(connections[MainHub][observer[o].session], <<o>>)
    /\ connections' = [connections EXCEPT
           ![MainHub] = Unregister(@, o, observer[o].session)]
    /\ disconnected' = disconnected \cup {o}
    /\ UNCHANGED <<locks, entries, broadcasts, shutdown, sessions, session, tasks,
                   running_tasks, handle, observer, inbox, sendq, caller, cleanup_state,
                   notified, cancel_accepted>>

\* line 36: list.remove(ws) raises ValueError when ws is not in the list
RemoveRaises(list, ws) == IF Contains(list, <<ws>>) THEN None ELSE "ValueError"

\* lines 35-36: what disconnect raises for this websocket and session
DisconnectRaises(conns, ws, session_id) ==
    IF session_id \in DOMAIN conns THEN RemoveRaises(conns[session_id], ws) ELSE None

\* disconnect (lines 33-38) called by any caller with any websocket and any
\* session id, registered under it or not; the caller keeps what the call
\* raised
disconnect_call(c, o, session_id) ==
    /\ caller[c].pc = "idle"
    /\ LET raised == DisconnectRaises(connections[MainHub], o, session_id)
           held == /\ session_id \in DOMAIN connections[MainHub]
                   /\ Contains(connections[MainHub][session_id], <<o>>)
       IN /\ caller' = [caller EXCEPT ![c] =
                 [IdleCaller EXCEPT !.op = "disconnect", !.session = session_id,
                                    !.pc = IF raised = None THEN "returned" ELSE "raised",
                                    !.raised = raised]]
          /\ connections' = IF held
                            THEN [connections EXCEPT
                                     ![MainHub] = Unregister(@, o, session_id)]
                            ELSE connections
          /\ disconnected' = IF held THEN disconnected \cup {o} ELSE disconnected
    /\ UNCHANGED <<locks, entries, broadcasts, shutdown, sessions, session, tasks,
                   running_tasks, handle, observer, inbox, sendq, cleanup_state,
                   notified, cancel_accepted>>

\* broadcast_to_session (lines 48-57) up to its gather
broadcast_to_session(session_id) ==
    /\ Len(broadcasts) < MaxBroadcasts
    /\ LET b == Len(broadcasts) + 1
           data == PayloadEvent(b, "session", session_id)
           jobs == Sends(MainHub, session_id, data, b)
       IN /\ sendq' = Schedule(sendq, jobs)
          /\ broadcasts' = Append(broadcasts,
                 BroadcastCall("session", session_id, data,
                               Range(Observing(session_id)), jobs))
    /\ UNCHANGED <<locks, disconnected, entries, shutdown, sessions, session, tasks,
                   running_tasks, handle, connections, observer, inbox, caller,
                   cleanup_state, notified, cancel_accepted>>

\* broadcast_to_all (lines 59-67) up to its gather
broadcast_to_all ==
    /\ Len(broadcasts) < MaxBroadcasts
    /\ LET b == Len(broadcasts) + 1
           data == PayloadEvent(b, "all", UnknownSession)
           jobs == SendsTo(MainHub, KeysFrom(entries[MainHub], connections[MainHub], 1),
                           data, b)
       IN /\ sendq' = Schedule(sendq, jobs)
          /\ broadcasts' = Append(broadcasts,
                 BroadcastCall("all", UnknownSession, data, Registered(MainHub), jobs))
    /\ UNCHANGED <<locks, disconnected, entries, shutdown, sessions, session, tasks,
                   running_tasks, handle, connections, observer, inbox, caller,
                   cleanup_state, notified, cancel_accepted>>

\* every send of a broadcast has ended: its gather ends and the call with it
BroadcastReturns(b) ==
    /\ b \in DOMAIN broadcasts
    /\ broadcasts[b].pc = "gather"
    /\ \A i \in 1..Len(sendq) : sendq[i].owner # b
    /\ broadcasts' = [broadcasts EXCEPT ![b].pc = Gather(broadcasts[b].escaped, TRUE)]
    /\ UNCHANGED <<locks, disconnected, entries, shutdown, sessions, session, tasks,
                   running_tasks, handle, connections, observer, inbox, sendq, caller,
                   cleanup_state, notified, cancel_accepted>>

\* the list the loop of line 72 walks: the bucket of the entry the loop of
\* line 71 is at, which is empty once disconnect has dropped it
Websockets(ents, conns, pos) ==
    IF pos \in 1..Len(ents) /\ Live(ents, conns, pos) THEN conns[ents[pos]] ELSE <<>>

RECURSIVE Resume(_, _, _, _)
\* disconnect_all (lines 71-77) from where its loops are to the next close
\* that suspends, or to its end.  A close on a websocket that is not open
\* raises at once and is swallowed; the loop over the dict raises RuntimeError
\* when the dict has changed size since the loop began.
Resume(frame, ents, conns, obs) ==
    LET websockets == Websockets(ents, conns, frame.pos) IN
    IF frame.idx < Len(websockets)
    THEN LET ws == websockets[frame.idx + 1] IN
         IF obs[ws].state = "open"
         THEN [frame EXCEPT !.pc = "closing", !.idx = @ + 1, !.ws = ws]
         ELSE Resume([frame EXCEPT !.idx = @ + 1], ents, conns, obs)
    ELSE IF Cardinality(DOMAIN conns) # frame.di_used
    THEN [frame EXCEPT !.pc = "raised"]
    ELSE LET later == {i \in (frame.pos + 1)..Len(ents) : Live(ents, conns, i)} IN
         IF later = {}
         THEN [frame EXCEPT !.pc = "returned"]
         ELSE Resume([frame EXCEPT !.pos = CHOOSE i \in later : \A j \in later : i <= j,
                                   !.idx = 0],
                     ents, conns, obs)

\* disconnect_all runs on from a frame: to a close, to clear(), or to the raise
Proceed(frame) ==
    LET next == Resume(frame, entries[MainHub], connections[MainHub], observer) IN
    /\ shutdown' = next
    /\ observer' = IF next.pc = "closing"
                   THEN [observer EXCEPT ![next.ws].state = "closed"] ELSE observer
    /\ connections' = IF next.pc = "returned"
                      THEN [connections EXCEPT ![MainHub] = <<>>] ELSE connections
    /\ entries' = IF next.pc = "returned"
                  THEN [entries EXCEPT ![MainHub] = <<>>] ELSE entries
    /\ UNCHANGED <<locks, disconnected, broadcasts, sessions, session, tasks,
                   running_tasks, handle, inbox, sendq, caller, cleanup_state, notified,
                   cancel_accepted>>

\* disconnect_all (lines 69-77) is called
disconnect_all ==
    /\ shutdown.pc = "idle"
    /\ Proceed([shutdown EXCEPT !.di_used = Cardinality(DOMAIN connections[MainHub])])

\* the close disconnect_all awaits has ended
CloseReturns ==
    /\ shutdown.pc = "closing"
    /\ Proceed(shutdown)

\* ------------------------------------------------------ the specifications
\* the steps of the executions of _execute_task
Execute ==
    \/ \E t \in TaskIds : ExecuteFirstStep(t)
    \/ \E t \in TaskIds, run \in Runs : RunReturns(t, run)
    \/ \E t \in TaskIds, e \in AgentErrors : RunRaises(t, e)
    \/ \E t \in TaskIds : RunCancelled(t)

\* the application: the endpoints and the lifespan of main.py
Next ==
    \/ \E a \in AgentTypes : create_session(a)
    \/ \E s \in SessionIds \cup {UnknownSession} : delete_session(s)
    \/ \E o \in Observers, s \in SessionIds \cup {UnknownSession} : websocket_endpoint(o, s)
    \/ \E o \in Observers : WebSocketDisconnect(o)
    \/ _send_to_websocket
    \/ \E c \in Callers, s \in SessionIds \cup {UnknownSession}, m \in Messages :
           SendMessage(c, s, m)
    \/ Execute
    \/ \E t \in TaskIds \cup {UnknownTask} : cancel_task_endpoint(t)
    \/ \E c \in Callers : TimeoutElapses(c)
    \/ \E c \in Callers : WaitEnds(c)
    \/ \E c \in Callers : BroadcastEnds(c)
    \/ CleanupStart
    \/ CleanupEnd

Spec == Init /\ [][Next]_vars

\* the application with the session requests of clients whose responses are
\* kept
ApiNext ==
    \/ Next
    \/ \E c \in Callers, a \in AgentTypes : create_session_endpoint(c, a)
    \/ \E c \in Callers, s \in SessionIds \cup {UnknownSession} : get_session_endpoint(c, s)
    \/ \E c \in Callers, s \in SessionIds \cup {UnknownSession} :
           delete_session_endpoint(c, s)

ApiSpec == Init /\ [][ApiNext]_vars

\* the live event channel: observers that send text frames while the
\* messages of their session are broadcast to them; no request cancels a task
\* and no wait times out
ChannelNext ==
    \/ \E a \in AgentTypes : create_session(a)
    \/ \E s \in SessionIds \cup {UnknownSession} : delete_session(s)
    \/ \E o \in Observers, s \in SessionIds \cup {UnknownSession} : websocket_endpoint(o, s)
    \/ \E o \in Observers : WebSocketDisconnect(o)
    \/ \E o \in Observers, data \in Frames : Receive(o, data)
    \/ \E o \in Observers, e \in PongErrors : PongFails(o, e)
    \/ _send_to_websocket
    \/ \E c \in Callers, s \in SessionIds \cup {UnknownSession}, m \in Messages :
           SendMessage(c, s, m)
    \/ \E t \in TaskIds : ExecuteFirstStep(t)
    \/ \E t \in TaskIds, run \in Runs : RunReturns(t, run)
    \/ \E t \in TaskIds, e \in AgentErrors : RunRaises(t, e)
    \/ \E c \in Callers : WaitEnds(c)
    \/ \E c \in Callers : BroadcastEnds(c)

ChannelSpec == Init /\ [][ChannelNext]_vars

\* the TaskManager under any caller of its public methods; it never looks at
\* the session id it is given
TaskManagerNext ==
    \/ \E m \in Messages : CreateTask(UnknownSession, m)
    \/ Execute
    \/ \E t \in TaskIds \cup {UnknownTask} : cancel_task(t)
    \/ \E c \in Callers, t \in DOMAIN tasks \cup {UnknownTask}, timeout \in Timeouts :
           WaitForTask(c, t, timeout)
    \/ \E c \in Callers : TimeoutElapses(c)
    \/ \E c \in Callers : WaitEnds(c)
    \/ CleanupStart
    \/ CleanupEnd

TaskManagerSpec == Init /\ [][TaskManagerNext]_vars

\* the TaskManager under any caller and any agent: a run may return any of the
\* results, and may keep running when it is cancelled
AnyAgentNext ==
    \/ TaskManagerNext
    \/ \E t \in TaskIds, run \in AllRuns \ Runs : RunReturns(t, run)
    \/ \E t \in TaskIds : RunSwallowsCancel(t)

\* what the event loop guarantees: a scheduled first step runs, a requested
\* cancellation is thrown into the coroutine, an elapsed timer fires, and an
\* awaiter whose future is done is resumed.  Nothing makes Runner.run return.
EventLoopFairness ==
    /\ WF_vars(\E t \in TaskIds : ExecuteFirstStep(t))
    /\ WF_vars(\E t \in TaskIds : RunCancelled(t) \/ RunSwallowsCancel(t))
    /\ WF_vars(\E c \in Callers : TimeoutElapses(c))
    /\ WF_vars(\E c \in Callers : WaitEnds(c))
    /\ WF_vars(CleanupEnd)

AnyAgentSpec == Init /\ [][AnyAgentNext]_vars /\ EventLoopFairness

\* the WebSocketManager of main.py under any caller of its public methods
HubNext ==
    \/ \E o \in HubObservers, s \in HubSessions : Connect(o, s)
    \/ \E o \in HubObservers : PeerCloses(o)
    \/ \E o \in HubObservers : disconnect(o)
    \/ \E s \in HubSessions : broadcast_to_session(s)
    \/ broadcast_to_all
    \/ _send_to_websocket
    \/ \E b \in 1..MaxBroadcasts : BroadcastReturns(b)
    \/ disconnect_all
    \/ CloseReturns

HubSpec == HubInit /\ [][HubNext]_vars

\* the hub under callers of disconnect that name any websocket and session
DisconnectNext ==
    \/ \E o \in HubObservers, s \in HubSessions : Connect(o, s)
    \/ \E c \in Callers, o \in HubObservers, s \in HubSessions : disconnect_call(c, o, s)
    \/ disconnect_all
    \/ CloseReturns

DisconnectSpec == HubInit /\ [][DisconnectNext]_vars

\* ------------------------------------------------------------- the claims
TimeoutErrors == {TimeoutError(timeout) : timeout \in Timeouts}

\* a status may stay, or move along pending -> running -> terminal
StatusStep(before, after) ==
    \/ after = before
    \/ before = "pending" /\ after = "running"
    \/ before = "running" /\ after \in Terminal

\* C1: once a task's status is completed, failed or cancelled no step changes
\* it, and the only status sequences are pending -> running -> one terminal
\* value.
C1_TerminalStatusIsFinal ==
    [][\A t \in DOMAIN tasks : StatusStep(tasks[t].status, tasks'[t].status)]_vars

\* C2: a task for which cancel_task has returned True ends cancelled, with a
\* non-empty error, completed_at set and no entry in running_tasks.  Stated on
\* the state in which its execution has ended, after which no step of the
\* execution remains to run; a timeout error written over the cancellation by
\* wait_for_task is let through, being C1's subject.
C2_CancelledTaskEndsCancelled ==
    \A t \in DOMAIN tasks :
        (t \in cancel_accepted /\ Done(handle[t])) =>
            /\ \/ tasks[t].status = "cancelled"
               \/ tasks[t].status = "failed" /\ tasks[t].error \in TimeoutErrors
            /\ tasks[t].error \notin {None, ""}
            /\ tasks[t].completed_at > 0
            /\ t \notin running_tasks

\* the task_update payloads broadcast for a task that carry a terminal status
TerminalNotifications(t) ==
    {i \in 1..Len(notified[t]) : notified[t][i].data.status \in Terminal}

\* C3: exactly one task_update carrying a terminal status is broadcast for
\* every task: never two, and one once its execution has ended.
C3_OneTerminalNotification ==
    \A t \in DOMAIN tasks :
        /\ Cardinality(TerminalNotifications(t)) <= 1
        /\ Done(handle[t]) => Cardinality(TerminalNotifications(t)) = 1

\* a call of wait_for_task has returned False
ReturnedFalse(c) == caller[c].pc = "returned" /\ caller[c].success = "False"

\* C4: when the timeout of wait_for_task elapses on an in-flight task before
\* the execution has finished, the call ends by returning False with the
\* execution cancelled, and from then on the task has status failed, an error
\* naming the timeout, and completed_at set.
C4_TimeoutFailsTheTask ==
    /\ [](\A c \in Callers :
            ReturnedFalse(c) =>
                /\ Done(handle[caller[c].task])
                /\ handle[caller[c].task].outcome = "cancelled"
                /\ tasks[caller[c].task].status = "failed"
                /\ tasks[caller[c].task].error \in TimeoutErrors
                /\ tasks[caller[c].task].completed_at > 0)
    /\ [][\A c \in Callers :
            (caller[c].pc = "cancelling" /\ caller'[c].pc # "cancelling") =>
                ReturnedFalse(c)']_vars

\* C4's case: a positive timeout elapsed while the agent was running, and the
\* call has returned False
C4_Witness ==
    \E c \in Callers :
        /\ caller[c].op = "wait_for_task"
        /\ caller[c].timeout = SendMessageTimeout
        /\ ReturnedFalse(c)
        /\ tasks[caller[c].task].started_at > 0

\* C5: a wait_for_task whose execution finishes before the timeout elapses,
\* by success, by an agent failure or by a concurrent cancel_task, returns True
\* with the task terminal and its error no timeout error.
C5_WaitReturnsTrue ==
    [][\A c \in Callers :
        (caller[c].pc = "waiting" /\ caller'[c].pc \notin {"waiting", "cancelling"}) =>
            /\ caller'[c].success = "True"
            /\ tasks'[caller[c].task].status \in Terminal
            /\ tasks'[caller[c].task].error \notin TimeoutErrors]_vars

\* C6: completed_at is set exactly when the status is terminal, and once set
\* no step assigns it again.
C6_CompletedAtSetOnce ==
    /\ [](\A t \in DOMAIN tasks :
            tasks[t].completed_at > 0 <=> tasks[t].status \in Terminal)
    /\ [][\A t \in DOMAIN tasks :
            tasks[t].completed_at > 0 => tasks'[t].completed_at = tasks[t].completed_at]_vars

\* a send_message call on an existing session has ended
SendMessageEnded(c) ==
    /\ caller[c].op = "send_message"
    /\ caller[c].pc \in {"returned", "raised"}
    /\ caller[c].raised # "HTTPException 404"

\* C7: every send_message call on an existing session returns the descriptor
\* of one assistant message that it appended to the session log, whatever the
\* outcome of its task; no exception escapes.
C7_SendMessageAlwaysReplies ==
    \A c \in Callers :
        SendMessageEnded(c) =>
            /\ caller[c].raised = None
            /\ Len(caller[c].reply) = 1
            /\ caller[c].reply[1].role = "assistant"
            /\ caller[c].reply[1] \in Range(session[caller[c].session].messages)

\* C8: every task_update the orchestrator emits for a task of a session is
\* delivered to every observer websocket_endpoint had connected to that
\* session at that moment (and that is still open once no send is pending).
C8_TaskUpdatesReachObservers ==
    sendq = <<>> =>
        \A t \in DOMAIN notified : \A i \in 1..Len(notified[t]) :
            \A o \in notified[t][i].connected :
                observer[o].state = "open" => notified[t][i].data \in Range(inbox[o])

\* C9: the task create_task returns has status running and an entry in
\* running_tasks.
C9_CreatedTaskIsRunning ==
    [][\A t \in TaskIds :
        (t \notin DOMAIN tasks /\ t \in DOMAIN tasks') =>
            /\ tasks'[t].status = "running"
            /\ t \in running_tasks']_vars

\* C10: cancel_task on a task in a terminal status, or on an unknown id,
\* returns False and leaves the tasks and running_tasks unchanged.
C10_CancelOfTerminalTask ==
    /\ [](\A t \in DOMAIN tasks \cup {UnknownTask} :
            (t \in DOMAIN tasks => tasks[t].status \in Terminal) => ~CancelTaskReturns(t))
    /\ [][\A t \in DOMAIN tasks \cup {UnknownTask} :
            ((t \in DOMAIN tasks => tasks[t].status \in Terminal) /\ cancel_task(t)) =>
                UNCHANGED <<tasks, running_tasks>>]_vars

\* C11: wait_for_task on an id that names no task, or a task in a terminal
\* status, returns True at once and changes no task and no entry of
\* running_tasks.
C11_WaitOnFinishedTaskReturnsTrue ==
    [][\A c \in Callers :
        (/\ caller[c].pc = "idle"
         /\ caller'[c].op = "wait_for_task"
         /\ caller'[c].pc # "idle"
         /\ caller'[c].task \in DOMAIN tasks =>
                tasks[caller'[c].task].status \in Terminal) =>
            /\ caller'[c].pc = "returned"
            /\ caller'[c].success = "True"
            /\ UNCHANGED <<tasks, running_tasks>>]_vars

\* the tool outputs of a run, each capped, in the order the run emitted them
ToolOutputs(items) ==
    LET outputs == SelectSeq(items, LAMBDA item :
                        item.type = TypeToolCallOutput /\ item.output.text # None)
    IN [i \in 1..Len(outputs) |-> CapOutput(outputs[i].output)]

\* the result by the stated priority: the tool outputs when the run produced
\* any, else the summary of the tools, the messages or the placeholder
ResultByPriority(run, tools_used) ==
    IF ToolOutputs(run.new_items) # <<>>
    THEN Join(ToolOutputs(run.new_items), "\n\n")
    ELSE TaskResult([ScanItems(EmptyScan, run.new_items) EXCEPT !.tool_outputs = <<>>],
                    tools_used)

\* C12: the result of a completed run is chosen by priority: the tool outputs
\* joined in emission order when the run produced a tool output item, else
\* "Executed tools: ...", else the final message, else the initial message,
\* else the placeholder.
C12_ResultPrefersToolOutputs ==
    [][\A t \in DOMAIN tasks : \A run \in Runs :
        RunReturns(t, run) =>
            tasks'[t].result = ResultByPriority(run, tasks'[t].tools_used)]_vars

\* every send of a broadcast call has ended
SendsEnded(b) == \A i \in 1..Len(sendq) : sendq[i].owner # b

\* C13: a send that fails for one observer neither keeps the payload of a
\* broadcast_to_session or broadcast_to_all from any other observer that was
\* registered for it (and is still open) nor raises to the caller.
C13_FailedSendIsIsolated ==
    \A b \in DOMAIN broadcasts :
        /\ broadcasts[b].pc # "raised"
        /\ SendsEnded(b) =>
               \A o \in broadcasts[b].registered :
                   observer[o].state = "open" => broadcasts[b].data \in Range(inbox[o])

\* C13's case: a broadcast has returned whose send to one registered observer
\* failed while another registered observer received the payload
C13_Witness ==
    \E b \in DOMAIN broadcasts : \E o1, o2 \in broadcasts[b].registered :
        /\ broadcasts[b].pc = "returned"
        /\ observer[o1].state = "closed"
        /\ broadcasts[b].data \notin Range(inbox[o1])
        /\ broadcasts[b].data \in Range(inbox[o2])

\* the payloads of broadcast_to_session an observer has received, in order
Received(o) == SelectSeq(inbox[o], LAMBDA event : event.type = "session")

\* C14: an observer receives the events of its session in the order in which
\* broadcast_to_session was called, also when a call is made while the sends
\* of an earlier call by another caller are still under way.
C14_EventsArriveInCallOrder ==
    \A o \in DOMAIN inbox :
        \A i, j \in 1..Len(Received(o)) :
            i < j => Received(o)[i].ref < Received(o)[j].ref

\* C14's case: an observer has received the payloads of two calls, the later
\* made before the earlier had returned
C14_Witness ==
    \E o \in DOMAIN inbox :
        /\ Len(Received(o)) = 2
        /\ broadcasts[Received(o)[1].ref].pc = "gather"

\* C15: a broadcast_to_session made after disconnect(o, s) has returned
\* delivers its payload to each observer still registered for s (and open),
\* delivers nothing to o, and does not raise.
C15_DisconnectedObserverGetsNothing ==
    \A b \in DOMAIN broadcasts :
        (broadcasts[b].scope = "session" /\ broadcasts[b].gone # {}) =>
            /\ \A o \in broadcasts[b].gone : broadcasts[b].data \notin Range(inbox[o])
            /\ broadcasts[b].pc # "raised"
            /\ SendsEnded(b) =>
                   \A o \in broadcasts[b].registered \ broadcasts[b].gone :
                       observer[o].state = "open" =>
                           broadcasts[b].data \in Range(inbox[o])

\* C15's case: of two observers of a session one was disconnected, its
\* websocket still open, and a later broadcast has reached the other
C15_Witness ==
    \E b \in DOMAIN broadcasts : \E o1 \in broadcasts[b].gone :
        \E o2 \in broadcasts[b].registered :
            /\ broadcasts[b].scope = "session"
            /\ observer[o1].session = broadcasts[b].session
            /\ observer[o1].state = "open"
            /\ broadcasts[b].pc = "returned"
            /\ broadcasts[b].data \in Range(inbox[o2])

\* C16: no hub maps a session id to an empty list of observers: a session has
\* a bucket exactly when an observer is registered for it.
C16_NoEmptyBucket ==
    \A h \in Hubs : \A s \in DOMAIN connections[h] : connections[h][s] # <<>>

\* C16's case: the last observer of a session was disconnected and its bucket
\* is gone, while another session keeps its bucket
C16_Witness ==
    \E o \in disconnected :
        /\ shutdown.pc = "idle"
        /\ observer[o].session \notin DOMAIN connections[MainHub]
        /\ DOMAIN connections[MainHub] # {}

\* C17: broadcast_to_session on a session without registered observers sends
\* nothing, raises nothing and leaves the connection map as it is.
C17_BroadcastWithoutObservers ==
    [][(/\ Len(broadcasts') = Len(broadcasts) + 1
        /\ broadcasts'[Len(broadcasts')].scope = "session"
        /\ broadcasts'[Len(broadcasts')].session \notin DOMAIN connections[MainHub]) =>
            /\ sendq' = sendq
            /\ inbox' = inbox
            /\ connections' = connections
            /\ broadcasts'[Len(broadcasts')].pc = "returned"]_vars

\* C17's case: a broadcast to a session without observers has returned while
\* another session had observers
C17_Witness ==
    \E b \in DOMAIN broadcasts :
        /\ broadcasts[b].scope = "session"
        /\ broadcasts[b].registered = {}
        /\ broadcasts[b].pc = "returned"
        /\ broadcasts[b].session \notin DOMAIN connections[MainHub]
        /\ DOMAIN connections[MainHub] # {}

\* C18: disconnect_all ends by returning, and then the hub holds no
\* registration and every observer it held until then has been closed, also
\* when connect and disconnect calls run while it awaits a close.
C18_DisconnectAllClosesEveryone ==
    [][(shutdown.pc \in {"idle", "closing"} /\ shutdown'.pc \notin {"idle", "closing"}) =>
            /\ shutdown'.pc = "returned"
            /\ DOMAIN connections'[MainHub] = {}
            /\ \A o \in Registered(MainHub) : observer'[o].state = "closed"]_vars

\* C19: for a session that was created and then deleted, the first
\* delete_session returns True, get_session returns absent from then on, and
\* every later delete_session returns False and changes nothing.
C19_DeleteIsIdempotent ==
    /\ [](\A s \in DOMAIN session :
            /\ session[s].status # "terminated" => DeleteSessionReturns(s)
            /\ session[s].status = "terminated" =>
                   get_session(s) = None /\ ~DeleteSessionReturns(s))
    /\ [][\A s \in DOMAIN session :
            (session[s].status = "terminated" /\ delete_session(s)) =>
                UNCHANGED <<sessions, session>>]_vars

\* C19's case: a created session has been deleted
C19_Witness ==
    \E s \in DOMAIN session :
        session[s].status = "terminated" /\ session[s].messages # <<>>

\* C20: a session that is in the map of the registry never has status
\* terminated, in any state another operation can run in.
C20_NoHalfDeletedSession ==
    \A s \in sessions : session[s].status # "terminated"

\* C20's case: a session was deleted while a send_message call on it was
\* suspended in its wait
C20_Witness ==
    \E c \in Callers :
        /\ caller[c].op = "send_message"
        /\ caller[c].pc = "waiting"
        /\ caller[c].session \in DOMAIN session
        /\ session[caller[c].session].status = "terminated"

\* the sends a step has scheduled: the jobs at the end of sendq' that sendq,
\* less the send that ran in the step, does not hold
Issued ==
    LET kept == IF Len(sendq') >= Len(sendq) THEN Len(sendq) ELSE Len(sendq) - 1
    IN SubSeq(sendq', kept + 1, Len(sendq'))

\* C21: after delete_session(id) has returned True no operation takes effect
\* against that session: nothing is appended to its message log and no
\* broadcast is issued for it, also by a send_message call that was waiting
\* for its task when the session was deleted.
C21_DeletedSessionIsLeftAlone ==
    [][\A s \in DOMAIN session :
        session[s].status = "terminated" =>
            /\ session'[s].messages = session[s].messages
            /\ \A i \in 1..Len(Issued) : Issued[i].data.session_id # s
            /\ \A t \in DOMAIN notified :
                   tasks[t].session_id = s => notified'[t] = notified[t]]_vars

\* the tasks cleanup found in running_tasks when it was called
InFlightAtCleanup ==
    IF cleanup_state.pc = "idle" THEN running_tasks ELSE cleanup_state.awaiting

\* C22: when cleanup returns, every task that was in running_tasks when it was
\* called is in a terminal status with completed_at set, and is no longer in
\* running_tasks.
C22_CleanupLeavesNoTaskInFlight ==
    [][(cleanup_state.pc # "done" /\ cleanup_state'.pc = "done") =>
            \A t \in InFlightAtCleanup :
                /\ tasks'[t].status \in Terminal
                /\ tasks'[t].completed_at > 0
                /\ t \notin running_tasks']_vars

\* a task's execution is suspended inside Runner.run
InAgentRun(t) == handle[t].pc = "agent"

\* C24: never are two tasks of one session both inside Runner.run on the
\* agent of that session.
C24_OneAgentRunPerSession ==
    \A t1, t2 \in DOMAIN handle :
        (t1 # t2 /\ InAgentRun(t1) /\ InAgentRun(t2)) =>
            tasks[t1].session_id # tasks[t2].session_id

\* C26: the tools_used list of a task never holds a name twice, however many
\* tool-call items of the run report the same tool.
C26_ToolsUsedHasNoDuplicates ==
    \A t \in DOMAIN tasks :
        \A i, j \in 1..Len(tasks[t].tools_used) :
            i # j => tasks[t].tools_used[i] # tasks[t].tools_used[j]

\* C26's case: a run that reported nmap twice, around another tool, has
\* completed
C26_Witness ==
    \E t \in DOMAIN tasks :
        /\ tasks[t].status = "completed"
        /\ Range(tasks[t].tools_used) = {"nmap", "generic_linux_command"}
        /\ Len(ScanItems(EmptyScan, RunRepeats.new_items).tools_used) = 3

\* C23: cleanup always terminates: once called it returns, also when an agent
\* run in flight never lets the cancellation out.
C23_CleanupTerminates ==
    (cleanup_state.pc # "idle") ~> (cleanup_state.pc = "done")

\* C25: whenever the execution of a task is suspended inside Runner.run, none
\* of the session-map, task-map and observer-map locks is held, and
\* cancel_task, delete_session, connect and create_task for other tasks and
\* sessions can run at once instead of waiting for the agent.
C25_NoLockAcrossAgentRun ==
    (\E t \in DOMAIN handle : InAgentRun(t)) =>
        /\ \A l \in Locks : ~locks[l]
        /\ \A t \in TaskIds \cup {UnknownTask} : ENABLED cancel_task(t)
        /\ \A s \in SessionIds \cup {UnknownSession} : ENABLED delete_session(s)
        /\ \A o \in DOMAIN observer : \A s \in sessions :
               observer[o].state = "new" => ENABLED websocket_endpoint(o, s)
        /\ \A c \in Callers : \A s \in sessions : \A m \in Messages :
               (caller[c].pc = "idle" /\ Len(tasks) < MaxTasks) =>
                   ENABLED SendMessage(c, s, m)

\* C25's case: while one task is inside the agent run, a cancel_task for a
\* task that had started was accepted, the session was deleted and an
\* observer was connected
C25_Witness ==
    \E t1, t2 \in DOMAIN handle : \E o \in DOMAIN observer :
        /\ t1 # t2
        /\ InAgentRun(t1) /\ ~handle[t1].must_cancel
        /\ t2 \in cancel_accepted
        /\ session[tasks[t1].session_id].status = "terminated"
        /\ observer[o].state = "open"

\* a create_session request whose agent could not be built has been answered
CreateSessionFailed(c) ==
    /\ caller[c].op = "create_session"
    /\ CreateAgentRaises(caller[c].agent_type) # None

\* C27: when the construction of the agent fails, create_session fails with
\* the unknown-agent-type error, the session map is as it was, and the lock
\* of the registry is free again, so that later create_session and
\* delete_session calls proceed.
C27_FailedCreateLeavesRegistryAsItWas ==
    /\ [][\A c \in Callers :
            (caller[c].pc = "idle" /\ CreateSessionFailed(c)') =>
                /\ caller'[c].pc = "raised"
                /\ caller'[c].content = "Unknown agent type: no_such_agent. Available agents: echo"
                /\ UNCHANGED <<sessions, session>>
                /\ ~locks'[SessionLock]]_vars
    /\ [](\A c \in Callers :
            CreateSessionFailed(c) =>
                /\ ~locks[SessionLock]
                /\ Len(session) < MaxSessions =>
                       \A d \in Callers :
                           caller[d].pc = "idle" => ENABLED create_session_endpoint(d, "echo")
                /\ \A s \in SessionIds : \A d \in Callers :
                       caller[d].pc = "idle" => ENABLED delete_session_endpoint(d, s))

\* C27's case: a create_session request failed on its agent type while no
\* session existed, and later requests created a session and deleted it
C27_Witness ==
    \E c, d \in Callers : \E s \in DOMAIN session :
        /\ CreateSessionFailed(c)
        /\ caller[d].op = "delete_session"
        /\ caller[d].session = s
        /\ caller[d].success = "True"

\* the state the task and notification layers keep
BehindTheRequests ==
    <<tasks, running_tasks, handle, notified, session, sessions, connections, entries,
      sendq, inbox, broadcasts>>

\* C28: a send_message, websocket, get or delete request that names an unknown
\* session id is rejected, and creates no task, appends no message, registers
\* no observer and issues no broadcast.
C28_UnknownSessionIsRejected ==
    [][/\ \A c \in Callers :
            (/\ caller[c].pc = "idle"
             /\ caller'[c].op \in {"send_message", "get_session", "delete_session"}
             /\ caller'[c].session \notin sessions) =>
                /\ caller'[c].pc = "raised"
                /\ caller'[c].raised = "HTTPException 404"
                /\ UNCHANGED BehindTheRequests
       /\ \A o \in DOMAIN observer :
            (/\ observer[o].state = "new"
             /\ observer'[o].state # "new"
             /\ observer'[o].session \notin sessions) =>
                /\ observer'[o].state = "closed"
                /\ UNCHANGED BehindTheRequests]_vars

\* C28's case: with a session in the registry, a send_message, a delete
\* request and a websocket that named other ids have been turned away
C28_Witness ==
    \E c, d \in Callers : \E o \in DOMAIN observer :
        /\ caller[c].op = "send_message" /\ caller[c].raised = "HTTPException 404"
        /\ caller[d].op = "delete_session" /\ caller[d].raised = "HTTPException 404"
        /\ observer[o].state = "closed" /\ observer[o].session \notin DOMAIN session
        /\ sessions # {}

\* the thinking message send_message builds from a task's tool commands
ThinkingOf(task) ==
    ChatMessage("assistant", ThinkingContent(task.metadata.tool_commands), <<>>, NoTaskId)

\* the last message of a log
Last(log) == log[Len(log)]

\* a broadcast of the caller is still under way
Broadcasting(c) == \E j \in 1..Len(sendq) : sendq[j].owner = c

\* what C29 asks of the step in which send_message call c appends its main
\* message: with tools the thinking message is already in the log, before
\* it; without tools the main message is all the call has appended
MainAppendedInOrder(c) ==
    LET t == caller[c].task
        log == session'[caller[c].session].messages
        before == session[caller[c].session].messages
    IN /\ Last(log) = caller'[c].reply[1]
       /\ IF tasks'[t].tools_used # <<>>
          THEN \E i \in 1..(Len(log) - 1) : log[i] = ThinkingOf(tasks'[t])
          ELSE Len(log) = Len(before) + 1

\* what C29 asks of a send that send_message call c schedules in a step
IssuedInOrder(c, event) ==
    LET t == caller[c].task
        log == session'[caller[c].session].messages
    IN /\ ~Broadcasting(c)
       /\ (event.type = "message_added" /\ event.is_thinking) =>
              /\ tasks'[t].tools_used # <<>>
              /\ caller'[c].reply = <<>>
              /\ Last(log) = ThinkingOf(tasks'[t])
              /\ event.content = ThinkingOf(tasks'[t]).content
       /\ (event.type = "message_added" /\ ~event.is_thinking) =>
              /\ caller[c].reply = <<>>
              /\ Last(log) = caller'[c].reply[1]
              /\ event.content = caller'[c].reply[1].content
       /\ event.type = "task_created" =>
              /\ tasks'[t].tools_used # <<>>
              /\ event.ref = t
              /\ caller[c].reply # <<>>
              /\ caller[c].reply[1] \in Range(session[caller[c].session].messages)

\* C29: for a task that used tools, send_message appends and broadcasts the
\* thinking message before it appends and broadcasts the main message, and
\* broadcasts task_created only after the main message; for a task that used
\* no tools it appends and broadcasts neither a thinking message nor
\* task_created.
C29_ThinkingThenMainThenTaskCreated ==
    [][/\ \A c \in Callers :
            (caller[c].op = "send_message" /\ caller[c].reply = <<>>
             /\ caller'[c].reply # <<>>) => MainAppendedInOrder(c)
       /\ \A i \in 1..Len(Issued) :
            Issued[i].owner \in Callers => IssuedInOrder(Issued[i].owner, Issued[i].data)]_vars

\* the events of one type and task reference in an inbox, by position
Positions(o, type, ref, is_thinking) ==
    {k \in 1..Len(inbox[o]) :
        /\ inbox[o][k].type = type
        /\ inbox[o][k].ref = ref
        /\ inbox[o][k].is_thinking = is_thinking}

\* C29's case: an observer has received, in this order, the thinking message,
\* the main message and the task_created of a task that ran ls, and the main
\* message of a task that used no tool
C29_Witness ==
    \E o \in DOMAIN inbox : \E t \in DOMAIN tasks :
        /\ tasks[t].tools_used = <<"generic_linux_command">>
        /\ \E i \in Positions(o, "message_added", NoTaskId, TRUE) :
           \E j \in Positions(o, "message_added", t, FALSE) :
           \E k \in Positions(o, "task_created", t, FALSE) :
               /\ i < j /\ j < k
               /\ inbox[o][i].content = "Executing Command: ls"
        /\ \E j \in Positions(o, "message_added", NoTaskId, FALSE) :
               inbox[o][j].content = "hi there"

\* the content C30 gives to the reply: "has an error" is an error that is set
ContentByPriority(success, task) ==
    IF success # "True" THEN "Task timed out after 2 minutes"
    ELSE IF task.error # None THEN "Error: " \o task.error
    ELSE IF task.metadata.final_response # None THEN task.metadata.final_response
    ELSE IF task.metadata.initial_thinking # None THEN task.metadata.initial_thinking
    ELSE "Agent completed but no response generated"

\* send_message call c chooses the content of its reply in this step
ChoosesContent(c) ==
    /\ caller[c].op = "send_message"
    /\ caller[c].content = None
    /\ caller'[c].content # None

\* C30: the content of the reply is the timeout notice when wait_for_task
\* returned False, else "Error: <error>" when the task has an error, else the
\* final response, else the initial thinking, else the placeholder; and the
\* reply to a run of one message "hi there" without tool calls is the
\* assistant message "hi there" with no tools and no task id.
C30_ReplyContentByPriority ==
    [][\A c \in Callers : ChoosesContent(c) =>
          LET task == tasks'[caller[c].task] IN
          /\ caller'[c].content = ContentByPriority(caller'[c].success, task)
          /\ (/\ caller'[c].success = "True"
              /\ task = Completed(task, RunHiThere, <<>>)) =>
                 caller'[c].reply = <<ChatMessage("assistant", "hi there", <<>>, NoTaskId)>>]_vars

\* the entries of one type in a log
ErrorEntries(logs) == {i \in 1..Len(logs) : logs[i] = "error"}

\* a task whose agent run raised: only that path stores an agent's error
RunFailed(t) == tasks[t].error \in AgentErrors

\* a caller whose wait_for_task call on the task has ended, the caller being
\* send_message or any other
WaitEnded(c, t) ==
    /\ caller[c].op \in {"wait_for_task", "send_message"}
    /\ caller[c].task = t
    /\ caller[c].success # None \/ caller[c].raised # None

\* C31: when the agent run raises a failure other than cancellation, the task
\* ends failed with the failure's description as its error, one error entry
\* appended to its log, completed_at set and its running_tasks entry removed;
\* and a wait_for_task call on that task returns True, the failure not
\* reaching the caller.
C31_AgentFailureFailsTheTask ==
    /\ [][\A t \in DOMAIN tasks : \A e \in AgentErrors : RunRaises(t, e) =>
              /\ tasks'[t].status = "failed"
              /\ tasks'[t].error = e
              /\ tasks'[t].logs = Append(tasks[t].logs, "error")
              /\ tasks'[t].completed_at # 0
              /\ t \notin running_tasks']_vars
    /\ [](\A t \in DOMAIN tasks : RunFailed(t) =>
              /\ tasks[t].status = "failed"
              /\ tasks[t].result = None
              /\ Cardinality(ErrorEntries(tasks[t].logs)) = 1
              /\ tasks[t].completed_at # 0
              /\ t \notin running_tasks
              /\ Done(handle[t])
              /\ \A c \in Callers : WaitEnded(c, t) =>
                     caller[c].success = "True" /\ caller[c].raised = None)

\* C31's case: the run of a task raised while send_message was blocked in
\* wait_for_task on it, and send_message has been resumed
C31_Witness ==
    \E t \in DOMAIN tasks : \E c \in Callers :
        /\ tasks[t].error = "agent failure"
        /\ caller[c].op = "send_message"
        /\ WaitEnded(c, t)
        /\ caller[c].success = "True"
        /\ notified[t][Len(notified[t])].data.status = "failed"

\* C32: a ping that arrives on the live event channel is answered with one
\* pong to its sender and nothing else changes; any other text frame is
\* ignored: the observer stays registered, its handler stays in the receive
\* loop, and no variable of the sessions, the tasks or the hub changes.
C32_PingIsAnsweredTheRestIgnored ==
    [][\A o \in Observers : \A data \in Frames : Receive(o, data) =>
          /\ observer'[o].state = "open"
          /\ IF data = PingText
             THEN inbox' = [inbox EXCEPT ![o] = Append(@, PongEvent)]
             ELSE inbox' = inbox
          /\ UNCHANGED <<sessions, session, tasks, running_tasks, handle, connections,
                         observer, sendq, caller, notified, entries,
                         disconnected>>]_vars

\* C39: an observer whose handler has ended, for whatever reason, is not
\* registered in the hub.
C39_NoObserverWithoutHandler ==
    \A o \in Observers : observer[o].state = "closed" => o \notin Registered(MainHub)

\* one list is the other with zero or more elements appended
IsPrefix(before, after) ==
    /\ Len(before) <= Len(after)
    /\ SubSeq(after, 1, Len(before)) = before

\* C33: in every step the message list of every session is the list before
\* the step with zero or more messages appended: nothing is removed, replaced
\* or reordered, also when send_message calls on one session interleave.
C33_MessagesAreAppendOnly ==
    [][\A s \in DOMAIN session :
          IsPrefix(session[s].messages, session'[s].messages)]_vars

\* C33's case: two send_message calls on one session interleaved, the second
\* user message arriving before the first reply, and both have replied
C33_Witness ==
    \E s \in DOMAIN session :
        LET log == session[s].messages IN
        /\ Len(log) >= 4
        /\ log[1].role = "user" /\ log[2].role = "user"
        /\ \A c \in Callers :
               /\ caller[c].op = "send_message" /\ caller[c].session = s
               /\ caller[c].reply # <<>>
               /\ caller[c].reply[1] \in Range(log)

\* the step in which the execution of a task leaves Runner.run and runs to
\* its end: the only step with an assignment to task.result
RunEnds(t) == handle[t].pc = "agent" /\ Done(handle'[t])

\* C34: the result of a task is assigned at most once, in the one step that
\* ends its run, and no step changes it once the status is terminal.
C34_ResultIsSetOnce ==
    [][\A t \in DOMAIN tasks :
          /\ tasks'[t].result # tasks[t].result =>
                 /\ RunEnds(t)
                 /\ tasks[t].result = None
                 /\ tasks[t].status \notin Terminal
          /\ Done(handle[t]) => Done(handle'[t])]_vars

\* C34's case: the run of a task was cancelled, which made its status
\* terminal, and afterwards the timeout branch of wait_for_task wrote to the
\* task: the result is as the run left it
C34_Witness ==
    \E t \in DOMAIN tasks : \E c \in Callers :
        /\ handle[t].outcome = "cancelled"
        /\ tasks[t].status = "failed"
        /\ tasks[t].error \in TimeoutErrors
        /\ tasks[t].completed_at = 2
        /\ tasks[t].result = None
        /\ WaitEnded(c, t)
        /\ caller[c].success = "False"

\* C35: between suspension points a task id is a key of running_tasks exactly
\* when the status of the task is pending or running: no terminal task keeps
\* an execution handle and no task that is not terminal lacks one.
C35_RunningTasksAreTheLiveTasks ==
    \A t \in DOMAIN tasks :
        t \in running_tasks <=> tasks[t].status \in {"pending", "running"}

\* C36: the status of a task and its outcome fields agree: completed has a
\* result and no error; failed and cancelled have an error that is not empty
\* and no result; pending and running have neither.
C36_StatusAgreesWithOutcome ==
    \A t \in DOMAIN tasks :
        /\ tasks[t].status = "completed" =>
               tasks[t].result # None /\ tasks[t].error = None
        /\ tasks[t].status \in {"failed", "cancelled"} =>
               tasks[t].error \notin {None, ""} /\ tasks[t].result = None
        /\ tasks[t].status \in {"pending", "running"} =>
               tasks[t].result = None /\ tasks[t].error = None

\* no execution of the task is running and no wait_for_task call on it is
\* under way
Quiescent(t) ==
    /\ Done(handle[t])
    /\ \A c \in Callers : caller[c].task = t => caller[c].pc \notin {"waiting", "cancelling"}

\* C37: once a task is quiescent, the status and the error of the last
\* task_update broadcast for it are the status and the error get_task
\* reports, also after a wait_for_task timeout.
C37_LastNotificationIsTheFinalState ==
    \A t \in DOMAIN tasks :
        (Quiescent(t) /\ notified[t] # <<>>) =>
            /\ Last(notified[t]).data.status = tasks[t].status
            /\ Last(notified[t]).data.error = tasks[t].error

\* the websocket is in the bucket of the session
RegisteredUnder(o, session_id) ==
    /\ session_id \in DOMAIN connections[MainHub]
    /\ Contains(connections[MainHub][session_id], <<o>>)

\* C38: disconnect(o, s) for an observer o that is not registered under s
\* leaves the hub as it is and does not raise, whether or not s has other
\* observers.
C38_DisconnectOfUnregisteredIsNoOp ==
    [][\A c \in Callers : \A o \in HubObservers : \A s \in HubSessions :
          (disconnect_call(c, o, s) /\ ~RegisteredUnder(o, s)) =>
              /\ caller'[c].pc = "returned"
              /\ caller'[c].raised = None
              /\ UNCHANGED <<connections, entries, observer, inbox>>]_vars
====
